---- MODULE Spec2Model ----
(***************************************************************************)
(* A model of package tail (powerman/tail): the follow loop Tail.Read with *)
(* tryOpen, openNext and read, the tracked file with its cancellation      *)
(* watcher, and the file system and timers it runs against.                *)
(*                                                                         *)
(* One pull (Tail.Read) is a sequence of steps, one per system call or     *)
(* select, so that writers, rotation, cancellation, the watchers and the   *)
(* poll-timeout timer interleave with it.                                  *)
(*                                                                         *)
(* A byte is the pair <<inode, index>>: the index-th byte ever written to  *)
(* that inode.  All bytes are therefore distinct, which makes a lost, a    *)
(* duplicated and a reordered byte visible in the delivered sequence.      *)
(***************************************************************************)
EXTENDS Integers, Sequences, FiniteSets, TLC

\* ------------------------------------------------------------- bounds
MaxEvents == 3   \* events of the environment in a run of Spec
MaxRotEvents == 5   \* writes, renames and creations in a run of FairRotate
MaxAppend == 3   \* bytes appended in a run of FairAppend
MaxDetachEvents == 3   \* writes and removals in a run of FairDetach
MaxMissingEvents == 3   \* writes, removals and unreadable files in a run of FairMissing
MaxAppearEvents == 5   \* creations, writes and renames in a run of FairAppear
MaxRelinkEvents == 3   \* writes, removals and re-creations of the path in a run of FairRelink
MaxReplaceEvents == 3   \* writes, renames and creations in a run of FairReplace
MaxCancelEvents == 2   \* events of the environment in a run of FairCancel
MaxStatEvents == 3   \* events of the environment in a run of SpecStat
MaxBuf == 2      \* largest len(p) of a pull
MaxInode == 3    \* inodes ever created at the path
MaxFd == 4       \* os.File objects alive at once

VARIABLES
    pathIno,    \* the inode the path names now; 0: the path does not exist
    inodes,     \* inode -> [kind, denied, size, rd]
    events,     \* how many events of the environment have happened
    ioErr,      \* "none" | "on" | "stat" | "off": the device fails reads with
                \* EIO ("on"), or the stat of a descriptor with ESTALE ("stat")
    cancelled,  \* the ctx given to Follow is done
    fds,        \* os.File objects: fd -> [state, ino, off, cancel]
    t,          \* the Tail: [f, next, lasterr]
    pc,         \* where the caller's goroutine is inside Tail.Read
    p,          \* len(p) of the pull in progress (of the last pull when idle)
    timeoutc,   \* "nil" | "armed" | "fired": the pull's poll-timeout channel
    errOpen,    \* read's local errOpen
    err,        \* the error the select of tryOpen / read waits with
    ret,        \* what the last pull returned: [n, err]
    logs,       \* the log line printed last
    h           \* history: what was delivered, and the marks the properties use

envVars == <<pathIno, inodes, events, ioErr, cancelled>>
locVars == <<p, timeoutc, errOpen, err>>
vars == <<pathIno, inodes, events, ioErr, cancelled, fds, t, pc, p, timeoutc,
          errOpen, err, ret, logs, h>>

Inodes == 1..MaxInode
Fds == 1..MaxFd
Min(a, b) == IF a < b THEN a ELSE b

\* ------------------------------------------------------- the file system
NoInode == [kind |-> "none", denied |-> FALSE, size |-> 0, rd |-> 0]
Exists(i) == inodes[i].kind # "none"
NumInodes == Cardinality({i \in Inodes : Exists(i)})

\* -------------------------------------------------------- trackedFile
NilFile == [alloc |-> FALSE, file |-> 0, info |-> 0, cancel |-> 0]
newTrackedFile == [alloc |-> TRUE, file |-> 0, info |-> 0, cancel |-> 0]
FreeFd == [state |-> "free", ino |-> 0, off |-> 0, cancel |-> FALSE]

Opened(f) == f.file # 0
Usual(i) == inodes[i].kind = "reg"
\* (mutant) a file counts as detached only while the path names nothing
DetachedPathGone(f) == pathIno = 0

\* (mutant) the comparison of the two files is not negated
DetachedSame(f) == pathIno = 0 \/ pathIno = f.info

\* file.go:67-70: the path cannot be stat-ed or names another file
Detached(f) == pathIno = 0 \/ pathIno # f.info

\* openFile(path) followed by file.Stat(): the error, "nil" on success
OpenErr ==
    IF pathIno = 0 THEN "ENOENT"
    ELSE IF inodes[pathIno].denied THEN "EACCES"
    ELSE IF ioErr = "stat" THEN "ESTALE"
    ELSE "nil"

\* util.go:14-22: unwrap strips the *os.PathError around an error
unwrap(e) ==
    CASE e = "PathError{ErrClosed}" -> "ErrClosed"
      [] e = "PathError{EIO}" -> "EIO"
      [] e = "PathError{EAGAIN}" -> "EAGAIN"
      [] e = "PathError{ENOENT}" -> "ENOENT"
      [] e = "PathError{EACCES}" -> "EACCES"
      [] OTHER -> e

\* isWouldBlock (tail.go:357): EAGAIN / EWOULDBLOCK
isWouldBlock(e) == e = "EAGAIN"

HasFreeFd(F) == \E fd \in Fds : F[fd].state = "free"
NewFd(F) == CHOOSE fd \in Fds : F[fd].state = "free" /\ \A g \in Fds : F[g].state = "free" => fd <= g

\* (mutant) a file opened during a pull is positioned at its end
StartOffsetEnd == inodes[pathIno].size

\* part_003:52-56: a descriptor just opened reads from the start of the file
StartOffset == 0

\* trackedFile.Open succeeding: the new os.File with its watcher, and the fields set
OpenFds(F, off) ==
    [F EXCEPT ![NewFd(F)] = [state |-> "open", ino |-> pathIno, off |-> off, cancel |-> FALSE]]
OpenFile(f, F) == [f EXCEPT !.file = NewFd(F), !.info = pathIno, !.cancel = NewFd(F)]

\* (mutant) a descriptor whose stat failed is left open
OpenFailFdsLeak(F) ==
    IF ioErr = "stat" /\ pathIno # 0 /\ HasFreeFd(F) THEN OpenFds(F, StartOffset) ELSE F

\* file.go:28-36: trackedFile.Open failing.  Either openFile gave no descriptor
\* (30), or file.Stat failed and the descriptor just opened is closed by Open
\* itself (34); the watcher of 41-45 is not started
OpenFailFds(F) == F
\* file.go:30, 35: both failure returns precede the assignments of 47-49
OpenFailFile(f) == f

\* trackedFile.Close: the fields dropped, the private cancel fired
CloseFile(f) == [f EXCEPT !.file = 0, !.info = 0]
\* (mutant) Close closes the descriptor itself instead of leaving it to the watcher
CloseFdsDirect(F, f) == IF f.cancel = 0 THEN F ELSE [F EXCEPT ![f.cancel] = FreeFd]

CloseFds(F, f) ==
    IF f.cancel = 0 THEN F
    ELSE IF F[f.cancel].state = "closed" THEN [F EXCEPT ![f.cancel] = FreeFd]
    ELSE IF F[f.cancel].state = "open" THEN [F EXCEPT ![f.cancel].cancel = TRUE]
    ELSE F

\* ------------------------------------------------------------- logging
Log(L, m) == <<m>>
\* a call that may log nothing: m = "" stands for no line
LogLine(L, m) == IF m = "" THEN L ELSE Log(L, m)

\* tail.go:325-329: what openNext logs after the first open of a pending file
FirstOpenLine(e) == IF e = "nil" THEN "has been replaced" ELSE "has become inaccessible"

\* (mutant) a retry that fails logs the reason again
RetryLineNoisy(e) == IF e = "nil" THEN "has appeared" ELSE "has become inaccessible"

\* tail.go:331-334: what openNext logs after a retry of that open
RetryLine(e) == IF e = "nil" THEN "has appeared" ELSE ""

\* ------------------------------------------------------------- Follow
\* The state Follow leaves, given the file system it ran against.
\* (mutant) Follow does not seek to the end
FollowOffStart(i) == 0

\* tail.go:249-250: a regular file is read from its end, a FIFO as it comes
FollowOff(i) == IF Usual(i) THEN inodes[i].size ELSE 0
FollowFds ==
    IF OpenErr = "nil"
    THEN OpenFds([fd \in Fds |-> FreeFd], FollowOff(pathIno))
    ELSE [fd \in Fds |-> FreeFd]
FollowTail ==
    [f |-> IF OpenErr = "nil" THEN OpenFile(newTrackedFile, [fd \in Fds |-> FreeFd])
           ELSE newTrackedFile,
     next |-> NilFile,
     lasterr |-> "nil",
     whence |-> "end"]
FollowLogs == IF OpenErr = "nil" THEN <<>> ELSE <<"cannot open">>

NoRet == [n |-> 0, err |-> "none"]

InitFs ==
    /\ events = 0
    /\ ioErr = "none"
    /\ cancelled = FALSE
    /\ \/ /\ pathIno = 0
          /\ inodes = [i \in Inodes |-> NoInode]
       \/ /\ pathIno = 1
          /\ \E k \in {"reg", "fifo"}, d \in BOOLEAN, s \in 0..1 :
                /\ k = "fifo" => s = 0
                /\ inodes = [i \in Inodes |->
                      IF i = 1 THEN [kind |-> k, denied |-> d, size |-> s, rd |-> 0]
                      ELSE NoInode]

\* Read has not been called, nothing has been returned
InitLocals ==
    /\ logs = FollowLogs
    /\ pc = "idle"
    /\ p = 0
    /\ timeoutc = "nil"
    /\ errOpen = "nil"
    /\ err = "nil"
    /\ ret = NoRet
InitHistory(off) ==
    [out |-> <<>>,
     from |-> [i \in Inodes |-> IF OpenErr = "nil" /\ i = pathIno THEN off ELSE -1],
     cut |-> [i \in Inodes |-> -1],
     succ |-> [i \in Inodes |-> 0],
     hand |-> [i \in Inodes |-> -1],
     had |-> [i \in Inodes |-> -1],
     handLen |-> 0,
     back |-> FALSE,
     drained |-> {},
     late |-> FALSE,
     afterCancel |-> FALSE,
     errs |-> {},
     errLen |-> 0,
     prev |-> "none",
     slot |-> "none",
     kept |-> FALSE,
     nRead |-> 0,
     seq |-> <<>>,
     fresh |-> FALSE,
     atFollow |-> IF pathIno = 0 THEN 0 ELSE inodes[pathIno].size]
InitEngine ==
    /\ fds = FollowFds
    /\ t = FollowTail
    /\ InitLocals
    /\ h = InitHistory(IF pathIno = 0 THEN 0 ELSE FollowOff(pathIno))

Init == InitFs /\ InitEngine

\* The whence option, as the specification gives it: the position Follow seeks
\* an existing regular file to.  A file just opened is at its start, which is
\* where whence = current leaves it.
Whences == {"start", "current", "end"}

\* (mutant) the option is ignored
FollowOffWhenceIgnored(w, i) == FollowOff(i)

FollowOffWhence(w, i) == IF w = "end" THEN FollowOff(i) ELSE 0
InitWhence ==
    /\ InitFs
    /\ pathIno = 1 /\ Usual(1) /\ ~inodes[1].denied
    /\ \E w \in Whences :
          /\ fds = OpenFds([fd \in Fds |-> FreeFd], FollowOffWhence(w, 1))
          /\ t = [FollowTail EXCEPT !.whence = w]
          /\ h = InitHistory(FollowOffWhence(w, 1))
    /\ InitLocals

\* ------------------------------------------------------ history (ghost)
\* out: the bytes pulls returned, in order.  from[i]: the offset at which the
\* engine began to read inode i (-1: never made current).  cut[i]: the size of
\* inode i when a pending file was opened while i was current (-1: never), and
\* succ[i] the inode that pending file was opened on.  hand[i]: the size of
\* inode i when the engine handed off from it (-1: never).  had[i]: 1 if
\* inode i held bytes when tryOpen opened it, 0 if it was empty (-1: tryOpen
\* never opened it).
\* handLen: how many bytes had been returned at the last handoff.  back: the
\* path, after naming nothing, has named the current file of the engine again.  drained: the inodes on
\* which a read of the current descriptor returned end-of-file.  late: a byte
\* was written to an inode after the engine had opened a newer inode.
\* errs: the errors pulls returned; errLen: how many bytes had been returned
\* when the last of them was.  afterCancel: the pull in progress (the last
\* pull when idle) was called when ctx was already done.  prev: what the pull
\* before it returned; slot: what the last pull with a non-empty buffer before
\* it returned.  atFollow: the size of the file at the path when Follow ran.
\* nRead: how many "error reading" lines the pull in progress (the last pull
\* when idle) has logged, two standing for two or more.
\* seq: the lines openNext has logged for the pending file there is, in order.
\* fresh: the iteration of read in progress is the one that allocated the
\* pending file, and the first open of that file failed.
\* kept: an iteration of read began with the pending file open on the inode of
\* the current file and the current file not detached, and left it pending.
Bytes(i, a, b) == [k \in 1..(b - a) |-> <<i, a + k>>]
Delivered(i, k) == \E j \in 1..Len(h.out) : h.out[j] = <<i, k>>
Had(H) == [H EXCEPT !.had[pathIno] = Min(inodes[pathIno].size, 1)]
Adopt(H, i, off) == [H EXCEPT !.from[i] = off]
MarkCut(H, f) ==
    IF f.info = 0 THEN H
    ELSE [H EXCEPT !.cut[f.info] = inodes[f.info].size, !.succ[f.info] = pathIno]
SamePending(T) == Opened(T.f) /\ T.next.alloc /\ Opened(T.next) /\ T.next.info = T.f.info
Kept(H) == [H EXCEPT !.kept = @ \/ (SamePending(t) /\ ~Detached(t.f))]
Noted(H, m) == IF m = "" \/ Len(H.seq) >= 3 THEN H ELSE [H EXCEPT !.seq = Append(@, m)]
Fresh(H) == [H EXCEPT !.fresh = TRUE]
Called(H) ==
    [H EXCEPT !.afterCancel = cancelled,
              !.nRead = 0,
              !.prev = ret.err,
              !.slot = IF p >= 1 THEN ret.err ELSE @]
Returned(H, e) == IF e = "nil" THEN H ELSE [H EXCEPT !.errs = @ \cup {e}, !.errLen = Len(H.out)]

\* ------------------------------------------------------------ Tail.Read
\* (mutant) the empty buffer is looked at before the end-of-stream latch
ReadEntryLenFirst(len) ==
    IF len = 0 THEN "empty"
    ELSE IF t.lasterr = "EOF" THEN "eof"
    ELSE "pull"

\* tail.go:278-284: the two early returns of Read
ReadEntry(len) ==
    IF t.lasterr = "EOF" THEN "eof"
    ELSE IF len = 0 THEN "empty"
    ELSE "pull"

\* (mutant) the last-error slot is cleared before the empty buffer is looked at
LastErrClearedEarly(len) == IF ReadEntry(len) = "eof" THEN t.lasterr ELSE "nil"

\* tail.go:278-290: t.lasterr once Read is past its early returns
LastErrAfterEntry(len) == IF ReadEntry(len) = "pull" THEN "nil" ELSE t.lasterr

\* (mutant) Read calls read once instead of looping
LoopNever(n, e) == FALSE

\* tail.go:301: the condition of Read's loop around read
LoopAgain(n, e) == n = 0 /\ e = "nil"

\* A pull returns (n, e).  Read's locals die with the call.
Return(n, e) ==
    /\ pc' = "idle"
    /\ ret' = [n |-> n, err |-> e]
    /\ timeoutc' = "nil"
    /\ errOpen' = "nil"
    /\ err' = "nil"

\* (mutant) the poll-timeout is never armed
ArmTimeoutNever == "nil"

\* (mutant) the poll-timeout is armed whatever the previous pull returned
ArmTimeoutAlways == "armed"

\* tail.go:286-289: the poll-timeout runs unless the previous pull returned an error
ArmTimeout == IF t.lasterr = "nil" THEN "armed" ELSE "nil"

\* tail.go:277-298: the call of Read, up to the first system call
ReadCall(len) ==
    /\ pc = "idle"
    /\ p' = len
    /\ UNCHANGED <<envVars, fds, logs>>
    /\ t' = [t EXCEPT !.lasterr = LastErrAfterEntry(len)]
    /\ CASE ReadEntry(len) = "eof" ->
              /\ Return(0, t.lasterr)
              /\ h' = Returned(Called(h), t.lasterr)
         [] ReadEntry(len) = "empty" ->
              /\ Return(0, "nil")
              /\ h' = Called(h)
         [] OTHER ->
              /\ timeoutc' = ArmTimeout
              /\ h' = Called(h)
              /\ pc' = IF ~Opened(t.f) THEN "tryOpen" ELSE "openNext"
              /\ UNCHANGED <<errOpen, err, ret>>

\* (mutant) the first failed open of the loop logs the reason
TryOpenLogsFirst ==
    /\ pc = "tryOpen"
    /\ UNCHANGED <<envVars, p, timeoutc, errOpen, ret>>
    /\ IF OpenErr = "nil"
       THEN /\ HasFreeFd(fds)
            /\ fds' = OpenFds(fds, StartOffset)
            /\ t' = [t EXCEPT !.f = OpenFile(t.f, fds)]
            /\ logs' = Log(logs, "has appeared")
            /\ h' = Adopt(Had(h), pathIno, StartOffset)
            /\ pc' = "openNext"
            /\ err' = "nil"
       ELSE /\ err' = OpenErr
            /\ pc' = "tryOpenWait"
            /\ logs' = IF err = "nil" THEN Log(logs, "has become inaccessible") ELSE logs
            /\ fds' = OpenFailFds(fds)
            /\ t' = [t EXCEPT !.f = OpenFailFile(t.f)]
            /\ UNCHANGED h

\* tail.go:308: tryOpen calls t.f.Open(); on success (317) logs and Read goes on
\* to its loop, on failure the select of 309-315 follows
TryOpen ==
    /\ pc = "tryOpen"
    /\ UNCHANGED <<envVars, p, timeoutc, errOpen, ret>>
    /\ IF OpenErr = "nil"
       THEN /\ HasFreeFd(fds)
            /\ fds' = OpenFds(fds, StartOffset)
            /\ t' = [t EXCEPT !.f = OpenFile(t.f, fds)]
            /\ logs' = Log(logs, "has appeared")
            /\ h' = Adopt(Had(h), pathIno, StartOffset)
            /\ pc' = "openNext"
            /\ err' = "nil"
       ELSE /\ err' = OpenErr
            /\ pc' = "tryOpenWait"
            /\ fds' = OpenFailFds(fds)
            /\ t' = [t EXCEPT !.f = OpenFailFile(t.f)]
            /\ UNCHANGED <<logs, h>>

\* (mutant) the poll-timeout counts as elapsed as soon as it is armed
TimeoutReadyArmed == timeoutc # "nil"

\* The selects of tryOpen and read wake on the first channel that is ready:
\* poll-delay elapses only while neither the timeout nor ctx.Done() is ready.
TimeoutReady == timeoutc = "fired"

\* tail.go:310
TryOpenDelay ==
    /\ pc = "tryOpenWait"
    /\ ~TimeoutReady /\ ~cancelled
    /\ pc' = "tryOpen"
    /\ UNCHANGED <<envVars, fds, t, p, timeoutc, errOpen, err, ret, logs, h>>

\* tail.go:311-312 and 294-297
TryOpenTimeout ==
    /\ pc = "tryOpenWait"
    /\ TimeoutReady
    /\ t' = [t EXCEPT !.lasterr = unwrap(err)]
    /\ Return(0, unwrap(err))
    /\ h' = Returned(h, unwrap(err))
    /\ UNCHANGED <<envVars, fds, p, logs>>

\* tail.go:313-314 and 294-297
TryOpenCancel ==
    /\ pc = "tryOpenWait"
    /\ cancelled
    /\ t' = [t EXCEPT !.lasterr = "EOF"]
    /\ Return(0, "EOF")
    /\ h' = Returned(h, "EOF")
    /\ UNCHANGED <<envVars, fds, p, logs>>

\* tail.go:322 and 330-335: openNext up to the stat of the path; the retry of
\* an unopened pending file is its Open
OpenNext ==
    /\ pc = "openNext"
    /\ UNCHANGED <<envVars, p, timeoutc, err, ret>>
    /\ IF ~t.next.alloc /\ Detached(t.f)
       THEN /\ t' = [t EXCEPT !.next = newTrackedFile]
            /\ pc' = "nextOpen"
            /\ UNCHANGED <<fds, errOpen, logs, h>>
       ELSE IF t.next.alloc /\ ~Opened(t.next)
       THEN /\ pc' = "fRead"
            /\ errOpen' = OpenErr
            /\ logs' = LogLine(logs, RetryLine(OpenErr))
            /\ IF OpenErr = "nil"
               THEN /\ HasFreeFd(fds)
                    /\ fds' = OpenFds(fds, StartOffset)
                    /\ t' = [t EXCEPT !.next = OpenFile(t.next, fds)]
                    /\ h' = Noted(MarkCut(h, t.f), RetryLine(OpenErr))
               ELSE /\ h' = Noted(h, RetryLine(OpenErr))
                    /\ fds' = OpenFailFds(fds)
                    /\ t' = [t EXCEPT !.next = OpenFailFile(t.next)]
       ELSE /\ pc' = "fRead"
            /\ errOpen' = "nil"
            /\ h' = Kept(h)
            /\ UNCHANGED <<fds, t, logs>>

\* tail.go:323-329: the Open of a pending file just constructed
NextOpen ==
    /\ pc = "nextOpen"
    /\ pc' = "fRead"
    /\ errOpen' = OpenErr
    /\ UNCHANGED <<envVars, p, timeoutc, err, ret>>
    /\ logs' = LogLine(logs, FirstOpenLine(OpenErr))
    /\ IF OpenErr = "nil"
       THEN /\ HasFreeFd(fds)
            /\ fds' = OpenFds(fds, StartOffset)
            /\ t' = [t EXCEPT !.next = OpenFile(t.next, fds)]
            /\ h' = Noted(MarkCut(h, t.f), FirstOpenLine(OpenErr))
       ELSE /\ h' = Fresh(Noted(h, FirstOpenLine(OpenErr)))
            /\ fds' = OpenFailFds(fds)
            /\ t' = [t EXCEPT !.next = OpenFailFile(t.next)]

\* os.File.Read on descriptor fd with a buffer of len bytes: [n, err].  A
\* regular file yields what lies between the offset and the end; a FIFO opened
\* O_RDWR|O_NONBLOCK never reports end-of-file, an empty one has nothing ready.
ReadRes(fd, len) ==
    LET d == fds[fd]
        i == d.ino
        avail == IF Usual(i) THEN inodes[i].size - d.off ELSE inodes[i].size - inodes[i].rd
    IN  IF d.state # "open" THEN [n |-> 0, err |-> "PathError{ErrClosed}"]
        ELSE IF ioErr = "on" THEN [n |-> 0, err |-> "PathError{EIO}"]
        ELSE IF avail > 0 THEN [n |-> Min(len, avail), err |-> "nil"]
        ELSE IF Usual(i) THEN [n |-> 0, err |-> "EOF"]
        ELSE [n |-> 0, err |-> "PathError{EAGAIN}"]

\* The position os.File.Read reads at: the descriptor's offset, the pipe's head
ReadPos(fd) ==
    IF Usual(fds[fd].ino) THEN fds[fd].off ELSE inodes[fds[fd].ino].rd

\* (mutant) the handoff drops the pending file and keeps the old one current
SwapKeeps(T) == [T EXCEPT !.next = NilFile]

\* tail.go:346: the pending file becomes the current one
Swap(T) == [T EXCEPT !.f = T.next, !.next = NilFile]

\* (mutant) the handoff is taken on the end-of-file an earlier read returned
HandoffStale(e) == fds[t.f.file].ino \in h.drained /\ t.next.alloc /\ Opened(t.next)

\* (mutant) the handoff is taken when the read returned no error
HandoffOnData(e) == e = "nil" /\ t.next.alloc /\ Opened(t.next)

\* (mutant) the handoff is taken on any read once the pending file is open
HandoffEarly(e) == t.next.alloc /\ Opened(t.next)

\* (mutant) the handoff does not ask whether the pending file is open
HandoffUnopened(e) == e = "EOF" /\ t.next.alloc

\* tail.go:344: the rotation handoff is taken
Handoff(e) == e = "EOF" /\ t.next.alloc /\ Opened(t.next)

\* (mutant) the switch has no case for would-block
ReadClassNoAgain(e) ==
    CASE e = "nil" -> "data"
      [] e = "ErrClosed" -> "closed"
      [] e = "EOF" -> "eof"
      [] OTHER -> "fail"

\* (mutant) end-of-file of the current descriptor is taken for a closed one
ReadClassEOFCloses(e) ==
    CASE e = "nil" -> "data"
      [] e = "ErrClosed" \/ e = "EOF" -> "closed"
      [] isWouldBlock(e) -> "again"
      [] OTHER -> "fail"

\* tail.go:350-362: the switch of read on the unwrapped error
ReadClass(e) ==
    CASE e = "nil" -> "data"
      [] e = "ErrClosed" -> "closed"
      [] e = "EOF" -> "eof"
      [] isWouldBlock(e) -> "again"
      [] OTHER -> "fail"

\* tail.go:301-304: read returned (n, e) to Read: Read assigns t.lasterr, and
\* either calls read again or returns.  T and H are the Tail and the history
\* as read left them.
ReadReturns(T, H, n, e) ==
    /\ t' = [T EXCEPT !.lasterr = e]
    /\ IF LoopAgain(n, e)
       THEN /\ pc' = "openNext"
            /\ errOpen' = "nil"
            /\ err' = "nil"
            /\ h' = [H EXCEPT !.fresh = FALSE]
            /\ UNCHANGED <<timeoutc, ret>>
       ELSE /\ Return(n, e)
            /\ h' = Returned([H EXCEPT !.fresh = FALSE], e)

\* tail.go:342-362: t.f.Read(p) and what read makes of it, up to its select
FRead ==
    /\ pc = "fRead"
    /\ UNCHANGED <<pathIno, events, ioErr, cancelled, p>>
    /\ LET fd == t.f.file
           r == ReadRes(fd, p)
           e == unwrap(r.err)
           i == fds[fd].ino
       IN  IF Handoff(e)
           THEN /\ fds' = CloseFds(fds, t.f)
                /\ t' = Swap(t)
                /\ h' = Adopt([h EXCEPT !.drained = @ \cup {i}, !.hand[i] = inodes[i].size,
                                         !.handLen = Len(h.out), !.seq = <<>>,
                                         !.fresh = FALSE],
                              t.next.info, StartOffset)
                /\ pc' = "openNext"
                /\ errOpen' = "nil"
                /\ UNCHANGED <<inodes, timeoutc, err, ret, logs>>
           ELSE CASE ReadClass(e) = "data" ->
                       /\ IF Usual(i)
                          THEN /\ fds' = [fds EXCEPT ![fd].off = @ + r.n]
                               /\ UNCHANGED inodes
                          ELSE /\ inodes' = [inodes EXCEPT ![i].rd = @ + r.n]
                               /\ UNCHANGED fds
                       /\ ReadReturns(t, [h EXCEPT !.out = @ \o Bytes(i, ReadPos(fd), ReadPos(fd) + r.n)],
                                      r.n, "nil")
                       /\ UNCHANGED logs
                  [] ReadClass(e) = "closed" ->
                       /\ ReadReturns(t, h, 0, "EOF")
                       /\ UNCHANGED <<inodes, fds, logs>>
                  [] ReadClass(e) = "eof" ->
                       /\ err' = errOpen
                       /\ pc' = "wait"
                       /\ h' = [h EXCEPT !.drained = @ \cup {i}]
                       /\ UNCHANGED <<inodes, fds, t, timeoutc, errOpen, ret, logs>>
                  [] ReadClass(e) = "again" ->
                       /\ err' = "nil"
                       /\ pc' = "wait"
                       /\ UNCHANGED <<inodes, fds, t, timeoutc, errOpen, ret, logs, h>>
                  [] OTHER ->
                       /\ err' = e
                       /\ pc' = "wait"
                       /\ logs' = Log(logs, "error reading")
                       /\ h' = [h EXCEPT !.nRead = Min(@ + 1, 2)]
                       /\ UNCHANGED <<inodes, fds, t, timeoutc, errOpen, ret>>

\* tail.go:364-366: with no error to surface the timeout is not waited for
WaitTimeoutReady == TimeoutReady /\ err # "nil"

\* tail.go:368-369
WaitDelay ==
    /\ pc = "wait"
    /\ ~WaitTimeoutReady /\ ~cancelled
    /\ ReadReturns(t, h, 0, "nil")
    /\ UNCHANGED <<envVars, fds, p, logs>>

\* tail.go:370-371
WaitTimeout ==
    /\ pc = "wait"
    /\ WaitTimeoutReady
    /\ ReadReturns(t, h, 0, err)
    /\ UNCHANGED <<envVars, fds, p, logs>>

\* tail.go:372-373
WaitCancel ==
    /\ pc = "wait"
    /\ cancelled
    /\ ReadReturns(t, h, 0, "EOF")
    /\ UNCHANGED <<envVars, fds, p, logs>>

\* (mutant) the watcher waits for the private cancel only, not for Follow's ctx
WatcherReadyPrivate(fd) == fds[fd].cancel

\* file.go:41-43: the ctx the watcher waits for is done
WatcherReady(fd) == cancelled \/ fds[fd].cancel

\* file.go:42-45: the watcher of an os.File closes it once its ctx is done: the
\* private cancel fired (trackedFile.Close) or the ctx of Follow is done.  The
\* trackedFile's fields are not touched.
Referenced(fd) == t.f.file = fd \/ t.next.file = fd
\* (mutant) the watcher clears the fields of the tracked file it closes
WatcherFileClears(f, fd) == IF f.file = fd THEN CloseFile(f) ELSE f

\* file.go:41-45: the goroutine holds the local file, not f: it calls
\* file.Close() and assigns nothing
WatcherFile(f, fd) == f
Watcher(fd) ==
    /\ fds[fd].state = "open"
    /\ WatcherReady(fd)
    /\ fds' = [fds EXCEPT ![fd] = IF Referenced(fd) THEN [@ EXCEPT !.state = "closed"] ELSE FreeFd]
    /\ t' = [t EXCEPT !.f = WatcherFile(t.f, fd), !.next = WatcherFile(t.next, fd)]
    /\ UNCHANGED <<envVars, pc, locVars, ret, logs, h>>

\* ------------------------------------------------------- the environment
\* A writer appends one byte to inode i (through the path or a descriptor it kept)
IsLate(i) == \E j \in Inodes : j > i /\ (h.from[j] >= 0 \/ t.next.info = j)
Write(i) ==
    /\ Exists(i)
    /\ inodes' = [inodes EXCEPT ![i].size = @ + 1]
    /\ h' = [h EXCEPT !.late = @ \/ IsLate(i)]
    /\ events' = events + 1
    /\ UNCHANGED <<pathIno, ioErr, cancelled, fds, t, pc, locVars, ret, logs>>

\* The file at the path is renamed away or removed; its inode lives on
Unlink ==
    /\ pathIno # 0
    /\ pathIno' = 0
    /\ events' = events + 1
    /\ UNCHANGED <<inodes, ioErr, cancelled, fds, t, pc, locVars, ret, logs, h>>

\* A new, empty regular file is created at the path, readable or not
Create(d) ==
    /\ pathIno = 0
    /\ NumInodes < MaxInode
    /\ pathIno' = NumInodes + 1
    /\ inodes' = [inodes EXCEPT ![NumInodes + 1] = [kind |-> "reg", denied |-> d, size |-> 0, rd |-> 0]]
    /\ events' = events + 1
    /\ UNCHANGED <<ioErr, cancelled, fds, t, pc, locVars, ret, logs, h>>

\* The path names an earlier inode again (renamed back, the symlink recreated)
Relink(i) ==
    /\ pathIno = 0
    /\ Exists(i)
    /\ pathIno' = i
    /\ events' = events + 1
    /\ h' = [h EXCEPT !.back = @ \/ (t.f.info = i)]
    /\ UNCHANGED <<inodes, ioErr, cancelled, fds, t, pc, locVars, ret, logs>>

\* The poll-timeout of the pull in progress elapses
TimeoutFires ==
    /\ timeoutc = "armed"
    /\ timeoutc' = "fired"
    /\ UNCHANGED <<envVars, fds, t, pc, p, errOpen, err, ret, logs, h>>

\* The ctx given to Follow is cancelled
Cancel ==
    /\ ~cancelled
    /\ cancelled' = TRUE
    /\ events' = events + 1
    /\ UNCHANGED <<pathIno, inodes, ioErr, fds, t, pc, locVars, ret, logs, h>>

\* Reads of the device start to fail, and recover
IOFails ==
    /\ ioErr = "none"
    /\ ioErr' = "on"
    /\ events' = events + 1
    /\ UNCHANGED <<pathIno, inodes, cancelled, fds, t, pc, locVars, ret, logs, h>>
IORecovers ==
    /\ ioErr = "on"
    /\ ioErr' = "off"
    /\ UNCHANGED <<pathIno, inodes, events, cancelled, fds, t, pc, locVars, ret, logs, h>>

\* file.go:31-32: file.Stat on a descriptor just opened starts to fail (a stale
\* handle of a network mount), and recovers
StatFails ==
    /\ ioErr = "none"
    /\ ioErr' = "stat"
    /\ events' = events + 1
    /\ UNCHANGED <<pathIno, inodes, cancelled, fds, t, pc, locVars, ret, logs, h>>
StatRecovers ==
    /\ ioErr = "stat"
    /\ ioErr' = "off"
    /\ UNCHANGED <<pathIno, inodes, events, cancelled, fds, t, pc, locVars, ret, logs, h>>

\* ------------------------------------------------------ specifications
Pull ==
    \/ \E len \in 0..MaxBuf : ReadCall(len)
    \/ TryOpen
    \/ TryOpenDelay
    \/ TryOpenTimeout
    \/ TryOpenCancel
    \/ OpenNext
    \/ NextOpen
    \/ FRead
    \/ WaitDelay
    \/ WaitTimeout
    \/ WaitCancel

Next ==
    \/ Pull
    \/ \E fd \in Fds : Watcher(fd)
    \/ TimeoutFires
    \/ IORecovers
    \/ \E i \in Inodes : events < MaxEvents /\ Write(i)
    \/ events < MaxEvents /\ Unlink
    \/ \E d \in BOOLEAN : events < MaxEvents /\ Create(d)
    \/ \E i \in Inodes : events < MaxEvents /\ Relink(i)
    \/ events < MaxEvents /\ Cancel
    \/ events < MaxEvents /\ IOFails

Spec == Init /\ [][Next]_vars

\* ---------------------------------------------------------- fairness
\* The caller's goroutine runs; a read of an empty FIFO may block for good.
Blocked ==
    /\ pc = "fRead"
    /\ fds[t.f.file].state = "open"
    /\ ioErr # "on"
    /\ ~Usual(fds[t.f.file].ino)
    /\ inodes[fds[t.f.file].ino].size = inodes[fds[t.f.file].ino].rd
Step ==
    \/ TryOpen
    \/ TryOpenDelay
    \/ TryOpenTimeout
    \/ TryOpenCancel
    \/ OpenNext
    \/ NextOpen
    \/ ~Blocked /\ FRead
    \/ WaitDelay
    \/ WaitTimeout
    \/ WaitCancel
\* The caller keeps pulling with a non-empty buffer; the watchers and the
\* timer run.
Fairness ==
    /\ WF_vars(Step)
    /\ WF_vars(\E len \in 1..MaxBuf : ReadCall(len))
    /\ WF_vars(\E fd \in Fds : Watcher(fd))
    /\ WF_vars(TimeoutFires)

\* Follow found a regular file it could open
InitRegular == Init /\ pathIno = 1 /\ Usual(1) /\ ~inodes[1].denied

\* ---- rotation of a regular file: writes, renaming away, a new file created
NextRotate ==
    \/ \E len \in 0..MaxBuf : ReadCall(len)
    \/ OpenNext
    \/ NextOpen
    \/ FRead
    \/ WaitDelay
    \/ WaitTimeout
    \/ \E fd \in Fds : Watcher(fd)
    \/ TimeoutFires
    \/ \E i \in Inodes : events < MaxRotEvents /\ Write(i)
    \/ events < MaxRotEvents /\ Unlink
    \/ events < MaxRotEvents /\ Create(FALSE)
FairRotate == InitRegular /\ [][NextRotate]_vars /\ Fairness

\* ---- a regular file that only grows
NextAppend ==
    \/ \E len \in 0..MaxBuf : ReadCall(len)
    \/ OpenNext
    \/ FRead
    \/ WaitDelay
    \/ TimeoutFires
    \/ events < MaxAppend /\ Write(1)
FairAppend == InitRegular /\ [][NextAppend]_vars /\ Fairness

\* ---- a regular file that only grows, followed with each whence
FairWhence == InitWhence /\ [][NextAppend]_vars /\ Fairness

\* ---- a regular file that is renamed away or removed and not replaced
NextDetach ==
    \/ \E len \in 0..MaxBuf : ReadCall(len)
    \/ OpenNext
    \/ NextOpen
    \/ FRead
    \/ WaitDelay
    \/ WaitTimeout
    \/ TimeoutFires
    \/ events < MaxDetachEvents /\ Write(1)
    \/ events < MaxDetachEvents /\ Unlink
FairDetach == InitRegular /\ [][NextDetach]_vars /\ Fairness

\* ---- a path that is missing or cannot be opened, and stays so once it is
InitNoFIFO == Init /\ (pathIno # 0 => Usual(pathIno))
NextMissing ==
    \/ \E len \in 0..MaxBuf : ReadCall(len)
    \/ TryOpen
    \/ TryOpenDelay
    \/ TryOpenTimeout
    \/ OpenNext
    \/ NextOpen
    \/ FRead
    \/ WaitDelay
    \/ WaitTimeout
    \/ TimeoutFires
    \/ \E i \in Inodes : events < MaxMissingEvents /\ Write(i)
    \/ events < MaxMissingEvents /\ Unlink
    \/ events < MaxMissingEvents /\ Create(TRUE)
FairMissing == InitNoFIFO /\ [][NextMissing]_vars /\ Fairness

\* ---- a path that names nothing when Follow is called
InitAbsent == Init /\ pathIno = 0
NextAppear ==
    \/ \E len \in 0..MaxBuf : ReadCall(len)
    \/ TryOpen
    \/ TryOpenDelay
    \/ TryOpenTimeout
    \/ OpenNext
    \/ NextOpen
    \/ FRead
    \/ WaitDelay
    \/ WaitTimeout
    \/ \E fd \in Fds : Watcher(fd)
    \/ TimeoutFires
    \/ \E i \in Inodes : events < MaxAppearEvents /\ Write(i)
    \/ events < MaxAppearEvents /\ Unlink
    \/ events < MaxAppearEvents /\ Create(FALSE)
FairAppear == InitAbsent /\ [][NextAppear]_vars /\ Fairness

\* ---- a path that goes away and comes back naming the same regular file
NextRelink ==
    \/ \E len \in 0..MaxBuf : ReadCall(len)
    \/ OpenNext
    \/ NextOpen
    \/ FRead
    \/ WaitDelay
    \/ WaitTimeout
    \/ \E fd \in Fds : Watcher(fd)
    \/ TimeoutFires
    \/ events < MaxRelinkEvents /\ Write(1)
    \/ events < MaxRelinkEvents /\ Unlink
    \/ events < MaxRelinkEvents /\ Relink(1)
FairRelink == InitRegular /\ [][NextRelink]_vars /\ Fairness

\* ---- a regular file or a FIFO that Follow opened, replaced at the path
InitOpened == Init /\ pathIno = 1 /\ ~inodes[1].denied
NextReplace ==
    \/ \E len \in 0..MaxBuf : ReadCall(len)
    \/ OpenNext
    \/ NextOpen
    \/ FRead
    \/ WaitDelay
    \/ WaitTimeout
    \/ \E fd \in Fds : Watcher(fd)
    \/ TimeoutFires
    \/ \E i \in Inodes : events < MaxReplaceEvents /\ Write(i)
    \/ events < MaxReplaceEvents /\ Unlink
    \/ events < MaxReplaceEvents /\ Create(FALSE)
FairReplace == InitOpened /\ [][NextReplace]_vars /\ Fairness

\* ---- opens that fail at the stat of the descriptor, next to the other failures
NextStat ==
    \/ Pull
    \/ \E fd \in Fds : Watcher(fd)
    \/ TimeoutFires
    \/ StatRecovers
    \/ \E i \in Inodes : events < MaxStatEvents /\ Write(i)
    \/ events < MaxStatEvents /\ Unlink
    \/ \E d \in BOOLEAN : events < MaxStatEvents /\ Create(d)
    \/ events < MaxStatEvents /\ Cancel
    \/ events < MaxStatEvents /\ StatFails
SpecStat == Init /\ [][NextStat]_vars

\* ---- everything, with cancellation, under fairness
NextCancel ==
    \/ Pull
    \/ \E fd \in Fds : Watcher(fd)
    \/ TimeoutFires
    \/ \E i \in Inodes : events < MaxCancelEvents /\ Write(i)
    \/ events < MaxCancelEvents /\ Unlink
    \/ \E d \in BOOLEAN : events < MaxCancelEvents /\ Create(d)
    \/ Cancel
FairCancel == Init /\ [][NextCancel]_vars /\ Fairness

\* =================================================================== claims

\* ------------------------------------------------------------------ C1
\* What the descriptor of inode a has handed over so far
Consumed(a) == IF t.f.info = a THEN fds[t.f.file].off ELSE inodes[a].size
RECURSIVE Flat(_)
\* The bytes of the files the engine has read, file after file, each from
\* where the engine started in it up to where it got
Flat(a) ==
    IF a = 0 THEN <<>>
    ELSE Flat(a - 1) \o (IF h.from[a] >= 0 THEN Bytes(a, h.from[a], Consumed(a)) ELSE <<>>)
\* Nothing is left to deliver and the engine reads the file at the path
Settled ==
    /\ pathIno # 0 => t.f.info = pathIno
    /\ \A a \in Inodes : h.from[a] >= 0 =>
           \A k \in (h.from[a] + 1)..inodes[a].size : Delivered(a, k)

\* C1 as stated: with no write to an old file after the engine opened a newer
\* one, once the engine reads a newer file every byte written to each older
\* file (past where Follow started) has been returned.
C1_EveryRotation ==
    ~h.late =>
        \A a \in Inodes : \A c \in Inodes :
            (Exists(a) /\ a < c /\ h.from[c] >= 0) =>
                \A k \in (IF a = 1 THEN h.atFollow + 1 ELSE 1)..inodes[a].size : Delivered(a, k)

\* C1 amended: with no write to an old file after the engine opened a newer
\* one, the bytes returned are exactly the bytes of the files the engine opened,
\* file after file, none lost and none twice; and in the end every byte of
\* those files has been returned and the engine reads the file at the path.
C1_NoLossNoDup ==
    /\ [](~h.late => h.out = Flat(MaxInode))
    /\ <>[](h.late \/ Settled)

\* A rotation the engine followed: bytes of the old file, then of the new one
C1_Witness ==
    /\ ~h.late
    /\ t.f.info = 2
    /\ 1 \in h.drained
    /\ \E k \in 1..MaxRotEvents : Delivered(1, k)
    /\ Delivered(2, 1)

\* ------------------------------------------------------------------ C3
\* The bytes appended to the file Follow found, from its end at that time
Appended == Bytes(1, h.atFollow, inodes[1].size)

\* C3: while a regular file only grows, the bytes returned are at all times a
\* prefix of the bytes appended after Follow, in order, whatever the buffer
\* lengths of the pulls; and in the end they equal them.
C3_AppendedSuffix ==
    /\ [](\E n \in 0..Len(Appended) : h.out = SubSeq(Appended, 1, n))
    /\ <>[](h.out = Appended)

\* All bytes appended after Follow have come back, the last one alone in a
\* buffer with room for more, and what the file held before Follow has not
C3_Witness ==
    /\ h.atFollow = 1
    /\ Len(h.out) = MaxAppend
    /\ h.out = Appended
    /\ pc = "idle" /\ ret.n = 1 /\ p = MaxBuf

\* ------------------------------------------------------------------ C4
\* C4: a file renamed away or removed, with nothing opened in its place, stays
\* the current file on its open descriptor, and every byte appended to it is
\* returned in the end, also the bytes appended after a pull returned the
\* not-found error.
C4_DetachedStillRead ==
    /\ [](t.f.info = 1 /\ t.f.file # 0 /\ fds[t.f.file].state = "open" /\ t.next.file = 0)
    /\ <>[](h.out = Appended)
    /\ \A k \in 1..(MaxDetachEvents + 1) :
          ("ENOENT" \in h.errs /\ inodes[1].size >= k /\ k > h.atFollow) ~> Delivered(1, k)

\* The path is gone, a pull returned the not-found error, and bytes of the
\* old file were returned after it
C4_Witness ==
    /\ pathIno = 0
    /\ "ENOENT" \in h.errs
    /\ Len(h.out) > h.errLen
    /\ h.out = Appended
    /\ t.f.info = 1

\* ------------------------------------------------------------------ C7
\* C7: once cancelled, a pull in progress returns, in the open-retry loop, in
\* the idle wait or inside a read, and the pulls reach end-of-stream.
C7_CancelUnblocks ==
    /\ (cancelled /\ pc # "idle") ~> (pc = "idle")
    /\ cancelled ~> (pc = "idle" /\ ret = [n |-> 0, err |-> "EOF"])

\* After cancellation the watcher closed the descriptor of a FIFO and a pull
\* returned end-of-stream
C7_Witness ==
    /\ cancelled
    /\ pc = "idle"
    /\ ret = [n |-> 0, err |-> "EOF"]
    /\ t.f.file # 0
    /\ fds[t.f.file].state = "closed"
    /\ ~Usual(fds[t.f.file].ino)

\* ------------------------------------------------------------------ C11
\* The error of a pull is neither none nor end-of-stream
IsError(e) == e \notin {"none", "nil", "EOF"}

\* C11: the pull with a non-empty buffer that follows a pull that returned a
\* non-end-of-stream error returns at least one byte or end-of-stream, and runs
\* with no poll-timeout from its first step to its last.
C11_ErrorThenDataOrEOF ==
    /\ (pc = "idle" /\ p >= 1 /\ IsError(h.prev)) =>
            ((ret.err = "nil" /\ ret.n >= 1) \/ ret = [n |-> 0, err |-> "EOF"])
    /\ (pc # "idle" /\ IsError(h.prev)) => timeoutc = "nil"

\* A pull returned an error and the next one returned data
C11_Witness ==
    /\ pc = "idle" /\ p >= 1
    /\ h.prev \in {"ENOENT", "EACCES"}
    /\ ret.err = "nil" /\ ret.n >= 1

\* ------------------------------------------------------------------ C12
\* C12: a pull returns a non-end-of-stream error only from a select whose
\* poll-timeout channel is ready, the timer armed when the pull started having
\* fired; a failed open or read met before that is followed by a poll-delay.
C12_ErrorOnlyAtTimeout ==
    [][(pc # "idle" /\ pc' = "idle" /\ IsError(ret'.err)) =>
          (timeoutc = "fired" /\ pc \in {"tryOpenWait", "wait"})]_vars

\* A pull returned not-found or a read error
C12_Witness ==
    /\ pc = "idle" /\ p >= 1
    /\ ret.n = 0 /\ ret.err \in {"ENOENT", "EIO"}
    /\ t.lasterr = ret.err

\* ------------------------------------------------------------------ C13
\* C13 as stated: while the path is missing or cannot be opened, a pull whose
\* previous pull returned no error is followed by the return of the open error.
C13_AfterAnyCleanPull ==
    (OpenErr # "nil" /\ pc # "idle" /\ p >= 1 /\ ~IsError(h.prev)) ~>
        (pc = "idle" /\ ret.n = 0 /\ ret.err \in {"ENOENT", "EACCES"})

\* C13 amended: while the path is missing or cannot be opened, a pull is
\* followed by the return of the open error, not-found or permission-denied as
\* the errno itself, if the last pull with a non-empty buffer before it
\* returned no error, be the current file never opened or open, detached and
\* read to its end; and no pull returns another error.
C13_OpenErrorSurfaces ==
    /\ (OpenErr # "nil" /\ pc # "idle" /\ p >= 1 /\ ~IsError(h.slot)) ~>
            (pc = "idle" /\ ret.n = 0 /\ ret.err \in {"ENOENT", "EACCES"})
    /\ []((pc = "idle" /\ IsError(ret.err)) => (ret.n = 0 /\ ret.err \in {"ENOENT", "EACCES"}))

\* The file was read to its end on its open descriptor, an unreadable file
\* took its place at the path and a pull returned permission-denied
C13_Witness ==
    /\ pc = "idle" /\ ret = [n |-> 0, err |-> "EACCES"]
    /\ t.f.file # 0 /\ t.f.info \in h.drained
    /\ pathIno # 0 /\ pathIno # t.f.info
    /\ ~IsError(h.slot)

\* ------------------------------------------------------------------ C14
\* C14 as stated: once a pull has returned permission-denied and the file is
\* removed, a later pull returns not-found.
C14_RemovedThenNotFound ==
    ("EACCES" \in h.errs /\ pathIno = 0) ~> ("ENOENT" \in h.errs)

\* C14 amended: once a pull has returned permission-denied for a path never
\* opened, the pulls that follow run with no poll-timeout; with the file removed
\* they go on retrying the open at each poll-delay, and neither return
\* not-found nor return at all while the path cannot be opened.
C14_RemovedKeepsRetrying ==
    /\ []((t.f.file = 0 /\ "EACCES" \in h.errs) =>
            ("ENOENT" \notin h.errs /\ (pc # "idle" => timeoutc = "nil")))
    /\ [][(t.f.file = 0 /\ "EACCES" \in h.errs /\ pc # "idle") => pc' # "idle"]_vars

\* Permission-denied was returned, the file is removed and the pull after it
\* waits for the next poll with not-found in hand
C14_Witness ==
    /\ t.f.file = 0
    /\ "EACCES" \in h.errs
    /\ pathIno = 0
    /\ pc = "tryOpenWait" /\ err = "ENOENT"
    /\ h.prev = "EACCES"

\* ------------------------------------------------------------------ C15
\* The current file is an open regular file, still the file at the path with
\* no replacement looked for, read to its end; no read has failed in this pull
\* and the engine is not cancelled
QuietAtEOF ==
    /\ t.f.file # 0
    /\ fds[t.f.file].state = "open"
    /\ ~Detached(t.f)
    /\ ~t.next.alloc
    /\ Usual(t.f.info)
    /\ fds[t.f.file].off = inodes[t.f.info].size
    /\ ioErr # "on" /\ err # "EIO"
    /\ ~cancelled

\* C15: with the current file open, at the path and at end-of-file, no read
\* error and no cancellation, a pull in progress takes no step that returns,
\* whether the poll-timeout has elapsed or not.
C15_IdleNeverReturns ==
    [][(pc # "idle" /\ QuietAtEOF) => pc' # "idle"]_vars

\* The poll-timeout has elapsed and the pull still waits for the next poll
C15_Witness ==
    /\ pc = "wait"
    /\ QuietAtEOF
    /\ timeoutc = "fired"
    /\ p >= 1
    /\ t.f.info \in h.drained

C17_FromOffsetZero ==
    /\ [](\A j \in 1..Len(h.out) :
            \/ h.out[j][2] = 1
            \/ \E i \in 1..(j - 1) : h.out[i] = <<h.out[j][1], h.out[j][2] - 1>>)
    /\ <>[](pathIno # 0 =>
            /\ t.f.info = pathIno
            /\ \A k \in 1..inodes[pathIno].size : Delivered(pathIno, k))

\* The first file held a byte when tryOpen opened it and that byte was
\* returned; the engine handed off to its replacement and returned the first
\* byte of that too
C17_Witness ==
    /\ h.had[1] >= 1 /\ Delivered(1, 1)
    /\ h.hand[1] >= 0
    /\ t.f.info = 2
    /\ Delivered(2, 1)

\* ------------------------------------------------------------------ C18
\* C18 as stated: no byte the file held when Follow was called is ever
\* returned.
C18_NeverOldBytes == \A k \in 1..h.atFollow : ~Delivered(1, k)

\* C18 amended: a byte the file held when Follow was called is returned only
\* after the engine handed off from the descriptor Follow opened to one it
\* opened on the same file during a pull; the descriptor Follow opened never
\* yields one.
C18_OldBytesOnlyReopened ==
    \A k \in 1..h.atFollow :
        Delivered(1, k) => (h.hand[1] >= 0 /\ 1 \in h.drained)

\* The file held a byte when Follow was called; a byte appended later was
\* returned by the descriptor Follow opened and the earlier byte was not
C18_Witness ==
    /\ h.atFollow = 1
    /\ h.hand[1] = -1
    /\ t.f.info = 1
    /\ Delivered(1, 2)
    /\ ~Delivered(1, 1)

\* ------------------------------------------------------------------ C20
\* The bytes returned since the last handoff
SinceHandoff == SubSeq(h.out, h.handLen + 1, Len(h.out))

\* C20 as stated: once the path has gone and come back naming the file the
\* engine has open, the engine hands off to a new descriptor of that file.
C20_AlwaysReplacement == h.back ~> (h.hand[1] >= 0)

\* C20 amended: a pending file allocated while the path named nothing is
\* opened once the path names the same file again and made current after the
\* old descriptor reported end-of-file; from then on the bytes returned are
\* the content of the file from its first byte, in the end all of it.  A path
\* gone and back between two polls starts none of this.
C20_ReopenedFromStart ==
    /\ [](h.hand[1] >= 0 =>
            /\ 1 \in h.drained
            /\ t.f.info = 1 /\ t.f.file # 0
            /\ SinceHandoff = Bytes(1, 0, fds[t.f.file].off))
    /\ [][(h.hand[1] = -1 /\ h.hand'[1] >= 0) => (t.next.alloc /\ t.next.file # 0)]_vars
    /\ <>[](pathIno # 0 => ~t.next.alloc)
    /\ <>[](h.hand[1] >= 0 => SinceHandoff = Bytes(1, 0, inodes[1].size))

\* The same file was opened again and a byte returned before is returned a
\* second time
C20_Witness ==
    /\ h.hand[1] >= 1
    /\ h.back
    /\ \E i \in 1..Len(h.out) : \E j \in 1..Len(h.out) : i < j /\ h.out[i] = h.out[j]
    /\ SinceHandoff = Bytes(1, 0, inodes[1].size)

\* ------------------------------------------------------------------ C19
\* The content of the file from where whence w puts the start
FromWhence(w) == Bytes(1, IF w = "start" THEN 0 ELSE h.atFollow, inodes[1].size)

C2_OldBeforeNew ==
    \A a \in Inodes : \A j \in 1..Len(h.out) :
        (h.succ[a] # 0 /\ h.out[j][1] = h.succ[a]) =>
            /\ a \in h.drained
            /\ \A k \in (h.from[a] + 1)..h.cut[a] :
                \E i \in 1..(j - 1) : h.out[i] = <<a, k>>

\* The old file held unread bytes when the new one was opened, and bytes of
\* the new one have been returned
C2_Witness ==
    \E a \in Inodes :
        /\ h.succ[a] # 0
        /\ h.cut[a] > h.from[a]
        /\ Delivered(h.succ[a], 1)

\* ---- C5.  Once a pull has returned end-of-stream, every later pull returns
\* (0, end-of-stream) at once, whatever the buffer length, zero included: it
\* opens, reads and closes nothing, logs nothing and leaves the engine's state
\* as it is (only a watcher may still close a descriptor).
EngineQuiet ==
    /\ t' = t
    /\ timeoutc' = timeoutc
    /\ logs' = logs
    /\ h.out' = h.out
    /\ \A i \in Inodes : inodes'[i].rd = inodes[i].rd
    /\ \A fd \in Fds : fds'[fd] # fds[fd] => fds[fd].state = "open" /\ fds'[fd].state # "open"
C5_EOFIsFinal ==
    [][(pc = "idle" /\ ret.err = "EOF")
         => (pc' = "idle" /\ ret' = [n |-> 0, err |-> "EOF"] /\ EngineQuiet)]_vars
\* a zero-length pull made after end-of-stream has returned end-of-stream
C5_Witness == pc = "idle" /\ p = 0 /\ ret = [n |-> 0, err |-> "EOF"] /\ "EOF" \in h.errs

\* ---- C6.  A pull called after ctx is done returns no data and no error other
\* than end-of-stream ((0, nil) only for an empty buffer).
C6_AfterCancelOnlyEOF ==
    (pc = "idle" /\ h.afterCancel /\ ret.err # "none")
        => (ret.n = 0 /\ (ret.err = "EOF" \/ (ret.err = "nil" /\ p = 0)))

\* ---- C8.  A pull returns end-of-stream only once ctx is done.
C8_EOFOnlyAfterCancel == (ret.err = "EOF" \/ t.lasterr = "EOF") => cancelled
\* before any cancellation, a pull has returned data after a handoff at which
\* the engine itself closed the old descriptor
C8_Witness ==
    /\ ~cancelled /\ pc = "idle" /\ ret.n > 0
    /\ h.drained # {}
    /\ \E fd \in Fds : fds[fd].cancel

\* ---- C9.  A pull returns (0, nil) only for an empty buffer: without an error
\* it carries at least one byte.
C9_NoEmptySuccess == (pc = "idle" /\ ret.err = "nil") => (ret.n >= 1 \/ p = 0)
\* a pull with a non-empty buffer returned bytes after the file had been at
\* end-of-file (the idle wait was passed through)
C9_Witness == pc = "idle" /\ ret.err = "nil" /\ ret.n >= 1 /\ p >= 1 /\ h.drained # {}

\* ---- C10 (as claimed).  A pull with an empty buffer returns (0, nil) in every
\* engine state.
C10_AlwaysNil == (pc = "idle" /\ p = 0 /\ ret.err # "none") => ret = [n |-> 0, err |-> "nil"]
\* ---- C10 (amended).  A pull with an empty buffer returns (0, nil) unless a
\* pull has returned end-of-stream, and then (0, end-of-stream); either way it
\* leaves the current and the pending file, the last-error slot, the timeout and
\* the descriptors as they are.
EmptyPullStep ==
    /\ pc = "idle" /\ pc' = "idle" /\ p' = 0
    /\ <<p, ret, h.afterCancel>>' # <<p, ret, h.afterCancel>>
C10_EmptyPull ==
    [][EmptyPullStep
         => /\ ret' = [n |-> 0, err |-> IF t.lasterr = "EOF" THEN "EOF" ELSE "nil"]
            /\ t' = t /\ fds' = fds /\ timeoutc' = timeoutc /\ logs' = logs /\ h.out' = h.out]_vars
\* an empty pull after a pull that returned an error: (0, nil), the error kept
C10_Witness ==
    /\ pc = "idle" /\ p = 0 /\ ret = [n |-> 0, err |-> "nil"]
    /\ t.lasterr \in {"ENOENT", "EACCES", "EIO"}

\* ------------------------------------------------------------------ C21
\* C21 as stated: an iteration of read that begins with the pending file open
\* on the inode of the current file and the current file not detached closes
\* the pending file and empties its slot, the current file staying current;
\* and no byte is returned twice.
C21_SameInodeDiscarded ==
    /\ [][(pc = "openNext" /\ SamePending(t) /\ ~Detached(t.f)) =>
            (t'.next = NilFile /\ t'.f = t.f)]_vars
    /\ [](\A i \in 1..Len(h.out) : \A j \in 1..Len(h.out) : i < j => h.out[i] # h.out[j])

\* C21 amended: a pending file open on the inode of the current file stays in
\* its slot, open, whether the current file is detached or not, and leaves it
\* only by being made current when a read of the current descriptor returns
\* end-of-file; that happens in the end, and every byte returned before it is
\* then returned a second time.
C21_SameInodePromoted ==
    /\ [][SamePending(t) =>
            \/ t' = t
            \/ t' = [t EXCEPT !.lasterr = t'.lasterr]
            \/ /\ pc = "fRead"
               /\ t'.f = t.next /\ t'.next = NilFile
               /\ fds[t.f.file].off = inodes[t.f.info].size]_vars
    /\ SamePending(t) ~> (~t.next.alloc /\ h.hand[1] >= 0)
    /\ <>[](\A k \in 1..MaxRelinkEvents :
              (h.hand[1] >= k /\ k > h.atFollow) =>
                  \E i \in 1..Len(h.out) : \E j \in 1..Len(h.out) :
                      i < j /\ h.out[i] = <<1, k>> /\ h.out[j] = <<1, k>>)

\* The pending file, open on the inode of the current file, was left pending
\* by an iteration that found the current file at the path again, and was made
\* current later; a byte came back twice
C21_Witness ==
    /\ h.kept
    /\ h.hand[1] >= 1
    /\ ~t.next.alloc
    /\ pathIno = 1
    /\ \E i \in 1..Len(h.out) : \E j \in 1..Len(h.out) : i < j /\ h.out[i] = h.out[j]

\* ------------------------------------------------------------------ C22
\* Every byte of the current file, from where the engine started in it, has
\* been returned
CurrentDelivered ==
    \A k \in (h.from[t.f.info] + 1)..inodes[t.f.info].size : Delivered(t.f.info, k)

\* C22 as stated: whatever the type of the current file, a pending file that
\* is open is made current in the end, and the bytes of the file that is
\* current in the end are all returned.
C22_EveryTypePromotes ==
    /\ \A b \in Inodes : (Opened(t.next) /\ t.next.info = b) ~> (t.f.info = b)
    /\ <>[]CurrentDelivered

\* C22 amended: while the current file is a regular file, a pending file that
\* is open is made current in the end, and the bytes of the file that is
\* current in the end are all returned.  A FIFO never reports end-of-file to
\* the descriptor the engine holds on it: it stays current whatever takes its
\* place at the path, and the file opened as pending stays pending.
C22_RegularPromotes ==
    /\ \A b \in Inodes :
          (Usual(t.f.info) /\ Opened(t.next) /\ t.next.info = b) ~> (t.f.info = b)
    /\ <>[]CurrentDelivered
    /\ [](~Usual(1) => (t.f.info = 1 /\ h.hand[1] = -1 /\ 1 \notin h.drained))
    /\ [][(~Usual(1) /\ Opened(t.next)) => t'.next = t.next]_vars

\* A regular file was replaced at the path, the replacement was opened as
\* pending and was made current; its bytes have all been returned
C22_Witness ==
    /\ Usual(1)
    /\ h.succ[1] = 2 /\ h.hand[1] >= h.cut[1]
    /\ t.f.info = 2 /\ ~t.next.alloc
    /\ inodes[2].size >= 1
    /\ CurrentDelivered

\* ------------------------------------------------------------------ C23
\* The open current file is replaced by another in this step
Promotion == t.f.file # 0 /\ t'.f.file # t.f.file

\* C23: the current file is replaced only in a step in which a read of its
\* descriptor returned end-of-file while the pending file was open; in that
\* step the old file is closed, the pending file becomes the current one, the
\* pending slot becomes empty and the pull goes on, with the readiness check
\* and the read of the new current file.  A step that returns bytes changes
\* neither file and closes no descriptor.
C23_HandoffStep ==
    /\ [][Promotion =>
            /\ pc = "fRead"
            /\ unwrap(ReadRes(t.f.file, p).err) = "EOF"
            /\ t.next.alloc /\ Opened(t.next)
            /\ t'.f = t.next
            /\ t'.next = NilFile
            /\ fds'[t.f.file].cancel
            /\ fds'[t'.f.file] = fds[t.next.file]
            /\ pc' = "openNext"
            /\ h'.out = h.out /\ ret' = ret]_vars
    /\ [][h'.out # h.out =>
            /\ t'.f = t.f /\ t'.next = t.next
            /\ \A fd \in Fds : /\ fds'[fd].state = fds[fd].state
                                /\ fds'[fd].cancel = fds[fd].cancel
                                /\ fds'[fd].ino = fds[fd].ino]_vars

\* Right after a handoff: the old descriptor has its cancel fired, the
\* replacement is current, the pending slot is empty and the pull is about to
\* read the new current file
C23_Witness ==
    /\ pc = "fRead"
    /\ h.hand[1] >= 1
    /\ h.handLen = Len(h.out) /\ Len(h.out) >= 1
    /\ t.f.info = 2 /\ fds[t.f.file].off = 0
    /\ t.next = NilFile
    /\ \E fd \in Fds : fds[fd].ino = 1 /\ fds[fd].cancel

\* ------------------------------------------------------------------ C24
\* C24: the engine hands off only in a step whose read of the current
\* descriptor, made with the pending file already open, returns end-of-file:
\* the descriptor is then at the end of the old file, past every byte the file
\* held when the pending file was opened.  So every byte of the old file up to
\* the handoff has been returned, the bytes appended after an earlier
\* end-of-file included.
C24_SecondReadCommits ==
    /\ [][Promotion =>
            /\ pc = "fRead" /\ Opened(t.next)
            /\ h.cut[t.f.info] >= 0
            /\ fds[t.f.file].off >= h.cut[t.f.info]
            /\ fds[t.f.file].off = inodes[t.f.info].size]_vars
    /\ [](\A a \in Inodes : h.hand[a] >= 0 =>
            /\ h.hand[a] >= h.cut[a]
            /\ \A k \in (h.from[a] + 1)..h.hand[a] : Delivered(a, k))

\* A read of the old file had returned end-of-file; with the pending file
\* open, a pull returned a byte that the old file held when the pending file
\* was opened, and the old file is still the current one
C24_Witness ==
    /\ pc = "idle" /\ ret.n >= 1
    /\ t.f.info = 1 /\ 1 \in h.drained
    /\ t.next.alloc /\ Opened(t.next)
    /\ h.out[Len(h.out)][1] = 1
    /\ h.out[Len(h.out)][2] <= h.cut[1]

\* ------------------------------------------------------------------ C25
\* C25: a pending file is allocated only by the readiness check, with the
\* pending slot empty and the path naming nothing or another file than the
\* current one; while it is allocated and not open every readiness check
\* tries its open, and opens it when the path can be opened; it leaves its
\* slot only by becoming the current file, and is otherwise only opened in
\* place.  The current and the pending file never share a descriptor, and a
\* descriptor that is open with its cancel not fired is that of the current
\* or of the pending file.
C25_PendingLifecycle ==
    /\ [][(~t.next.alloc /\ t'.next.alloc) =>
            /\ pc = "openNext"
            /\ Opened(t.f)
            /\ pathIno = 0 \/ pathIno # t.f.info
            /\ t'.next = newTrackedFile /\ t'.f = t.f]_vars
    /\ [][(pc = "openNext" /\ pc' # pc /\ t.next.alloc /\ ~Opened(t.next)) =>
            /\ errOpen' = OpenErr
            /\ OpenErr = "nil" => (Opened(t'.next) /\ t'.next.info = pathIno)
            /\ OpenErr # "nil" => t'.next = t.next]_vars
    /\ [][t.next.alloc =>
            \/ t'.next = t.next
            \/ ~Opened(t.next) /\ Opened(t'.next) /\ t'.next.alloc /\ t'.f = t.f
            \/ Opened(t.next) /\ t'.f = t.next /\ t'.next = NilFile]_vars
    /\ [](/\ t.f.alloc
          /\ Opened(t.next) => (t.next.alloc /\ Opened(t.f) /\ t.next.file # t.f.file)
          /\ \A fd \in Fds : (fds[fd].state = "open" /\ ~fds[fd].cancel) => Referenced(fd))

\* The pull before returned not-found for a pending file that could not be
\* opened; this pull has tried its open again, it is still not open
C25_Witness ==
    /\ pc = "fRead"
    /\ t.next.alloc /\ ~Opened(t.next)
    /\ errOpen = "ENOENT"
    /\ h.prev = "ENOENT"
    /\ Opened(t.f)

\* ------------------------------------------------------------------ C26
\* C26: a pull that returns a read error has logged "error reading" exactly
\* once, however many polls the error lasted, and returns it from the select
\* whose poll-timeout is ready.
C26_ReadErrorLoggedOnce ==
    (pc = "idle" /\ ret.err = "EIO") => (h.nRead = 1 /\ logs = <<"error reading">>)

\* ------------------------------------------------------------------ C27
\* The current file is an open FIFO with nothing to read; no read has failed
\* in this pull and the engine is not cancelled
QuietFIFO ==
    /\ t.f.file # 0
    /\ fds[t.f.file].state = "open"
    /\ ~Usual(t.f.info)
    /\ inodes[t.f.info].size = inodes[t.f.info].rd
    /\ ioErr # "on" /\ err # "EIO"
    /\ ~cancelled

\* C27: a read that would block changes neither file, closes and logs
\* nothing and leads to the wait with no error in hand, whatever the
\* readiness check returned; would-block is never what a pull returns; and
\* while the current file is an open FIFO with nothing to read a pull in
\* progress takes no step that returns, poll-timeout elapsed or not, the path
\* at hand or not.
C27_WouldBlockWaits ==
    /\ [][(pc = "fRead" /\ pc' # pc /\ unwrap(ReadRes(t.f.file, p).err) = "EAGAIN") =>
            /\ pc' = "wait" /\ err' = "nil"
            /\ t' = t /\ fds' = fds /\ logs' = logs /\ ret' = ret /\ h' = h]_vars
    /\ [](ret.err # "EAGAIN" /\ t.lasterr # "EAGAIN" /\ "EAGAIN" \notin h.errs)
    /\ [][(pc # "idle" /\ QuietFIFO) => pc' # "idle"]_vars
    /\ [][(pc = "wait" /\ QuietFIFO) => ~WaitTimeoutReady]_vars

\* The FIFO was removed from the path and the readiness check returned
\* not-found; the read would block, the poll-timeout has elapsed and the pull
\* waits for the next poll with no error in hand
C27_Witness ==
    /\ pc = "wait"
    /\ QuietFIFO
    /\ timeoutc = "fired"
    /\ err = "nil"
    /\ pathIno = 0 /\ errOpen = "ENOENT"
    /\ t.next.alloc

\* ------------------------------------------------------------------ C28
\* C28 as stated: the first open that fails in the open-retry loop of a pull
\* logs "has become inaccessible", and the failed opens after it log nothing.
C28_FirstFailureLogged ==
    [][(pc = "tryOpen" /\ pc' # pc /\ OpenErr # "nil") =>
          logs' = IF err = "nil" THEN <<"has become inaccessible">> ELSE logs]_vars

\* C28 amended: no open that fails in the open-retry loop logs anything, the
\* first no more than the later ones: while the current file has never been
\* opened the only line logged is the "cannot open" of Follow; the open that
\* succeeds logs "has appeared"; and "has become inaccessible" is logged only
\* by the readiness check, for a pending file.
C28_RetryLoopSilent ==
    /\ [](~Opened(t.f) => logs = <<"cannot open">>)
    /\ [][(pc = "tryOpen" /\ pc' # pc) =>
            IF OpenErr = "nil"
            THEN Opened(t'.f) /\ logs' = <<"has appeared">>
            ELSE ~Opened(t'.f) /\ logs' = logs /\ pc' = "tryOpenWait"]_vars
    /\ [][logs' = <<"has become inaccessible">> => (logs' = logs \/ pc = "nextOpen")]_vars

\* The pull before returned the open error; in this pull the open has failed
\* again and is about to be retried; the only line logged is that of Follow
C28_Witness ==
    /\ pc = "tryOpen"
    /\ ~Opened(t.f)
    /\ err \in {"ENOENT", "EACCES"}
    /\ IsError(h.prev)
    /\ logs = <<"cannot open">>

\* ------------------------------------------------------------------ C29
\* C29: the lines the readiness check has logged for the pending file there
\* is are "has been replaced" alone, when its first open succeeded, or "has
\* become inaccessible" alone while it is not open and "has become
\* inaccessible", "has appeared" once a retry has opened it; each line the
\* readiness check logs is one of these.
C29_LogPerDetachment ==
    /\ [](h.seq =
            IF ~t.next.alloc \/ pc = "nextOpen" THEN <<>>
            ELSE IF ~Opened(t.next) THEN <<"has become inaccessible">>
            ELSE IF h.seq[1] = "has been replaced" THEN <<"has been replaced">>
            ELSE <<"has become inaccessible", "has appeared">>)
    /\ [][(pc \in {"openNext", "nextOpen"} /\ logs' # logs) =>
            (h'.seq = Append(h.seq, logs'[1]) /\ t'.next.alloc)]_vars
    /\ [][(pc \in {"openNext", "nextOpen"} /\ h'.seq # h.seq) =>
            logs' = <<h'.seq[Len(h'.seq)]>>]_vars

\* The first open of the pending file failed, the path stayed inaccessible
\* over a pull that returned the error, and a retry has opened the file
C29_Witness ==
    /\ h.seq = <<"has become inaccessible", "has appeared">>
    /\ Opened(t.next)
    /\ "ENOENT" \in h.errs
    /\ logs = <<"has appeared">>
    /\ pc = "fRead"

\* ------------------------------------------------------------------ C30
\* C30: the poll-timeout is armed only by the step that starts a pull, and
\* there only if no error is left from the pull before; during the pull the
\* timer only goes from armed to elapsed, whatever the readiness check finds
\* and across a handoff; and a wait entered with the timer elapsed and an
\* error in hand returns that error (or end-of-stream, if cancelled too)
\* without another poll.
C30_ArmedOncePerPull ==
    /\ [][(timeoutc' = "armed" /\ timeoutc # "armed") =>
            (pc = "idle" /\ pc' # "idle" /\ t.lasterr = "nil" /\ ~IsError(ret.err))]_vars
    /\ [][(pc = "idle" /\ pc' # "idle") =>
            timeoutc' = IF t.lasterr = "nil" THEN "armed" ELSE "nil"]_vars
    /\ [][(pc # "idle" /\ pc' # "idle") =>
            (timeoutc' = timeoutc \/ (timeoutc = "armed" /\ timeoutc' = "fired"))]_vars
    /\ [][(pc = "wait" /\ pc' # pc /\ timeoutc = "fired" /\ err # "nil") =>
            (pc' = "idle" /\ ret'.n = 0 /\ (ret'.err = err \/ (cancelled /\ ret'.err = "EOF")))]_vars

\* The poll-timeout elapsed while the pull was idle; then the path went away,
\* the readiness check allocated the pending file and its first open failed;
\* in the same iteration the pull waits with not-found in hand and the timer
\* elapsed
C30_Witness ==
    /\ pc = "wait"
    /\ h.fresh
    /\ timeoutc = "fired"
    /\ err = "ENOENT"
    /\ h.seq = <<"has become inaccessible">>
    /\ t.f.info \in h.drained

\* ------------------------------------------------ a failed Open, C31
\* The caller's step that runs trackedFile.Open: in tryOpen on t.f, in openNext
\* on the pending file (first open, or retry)
OpenStep ==
    /\ pc' # pc
    /\ \/ pc = "tryOpen"
       \/ pc = "nextOpen"
       \/ pc = "openNext" /\ t.next.alloc /\ ~Opened(t.next)
OpenTarget(T) == IF pc = "tryOpen" THEN T.f ELSE T.next
OpenResult(eTry, eNext) == IF pc = "tryOpen" THEN eTry ELSE eNext

Closing(fd) == fds[fd].state = "open" /\ fds'[fd].state # "open"
NoOpenFd == \A fd \in Fds : fds[fd].state # "open"

FieldsSet(f) == f.file # 0 /\ f.info # 0 /\ f.cancel # 0

====
